---- MODULE Spec2Model ----
(***************************************************************************)
(* KOmcp: the OAuth2-protected MCP gateway (Fastify server, POST /mcp).    *)
(*                                                                         *)
(* Strings are sequences of characters.  A literal that the code only ever *)
(* handles as a whole ("mcp:tools:read", a message text, an opaque token)  *)
(* is written as one character of the alphabet, so that split(' '),        *)
(* startsWith, substring and includes are computed on the sequence exactly *)
(* as the JavaScript string operations compute them.                       *)
(***************************************************************************)
EXTENDS Integers, Sequences, FiniteSets, TLC

VARIABLES
    routes,     \* the route table of the Fastify instance
    pc,         \* per connection: "idle", "verifying", "upstream", "done"
    route,      \* per connection: the route the request asked for
    header,     \* per connection: request.headers.authorization
    keyRes,     \* per connection: how the signing-key lookup of jwt.verify ended
    user,       \* per connection: request.user, <<>> while undefined
    body,       \* per connection: request.body as read by the handler, <<>> before
    call,       \* per connection: the fetch() sent to the notes service, <<>> if none
    upRes,      \* per connection: how that fetch() ended, <<>> before
    resp,       \* per connection: the HTTP response sent, <<>> before
    trace,      \* per connection: the stages the request went through, in order
    token,      \* per connection: the token authMiddleware took from the header
    listening,  \* whether startServer has run
    gate,       \* a scope gate applied on its own: its token scope, its required
                \* scopes and what it sent (<<>> before it ran)
    jwks        \* the signing-key cache of the JWKS client: the time in ms, when
                \* the key of kid k1 was cached (-1: not cached), and the
                \* verifications made with it so far

vars == <<routes, pc, route, header, keyRes, user, body, call, upRes, resp, trace, token,
          listening, gate, jwks>>

\* The connections the server handles concurrently.
ReqIds == {"c1", "c2"}

-----------------------------------------------------------------------------
(* JavaScript string and array primitives                                  *)

S(c) == <<c>>

StartsWith(s, p) == Len(s) >= Len(p) /\ SubSeq(s, 1, Len(p)) = p

\* s.substring(n)
Substring(s, n) == SubSeq(s, n + 1, Len(s))

\* String.prototype.includes: sub occurs in s as a contiguous run
StrIncludes(s, sub) ==
    \E i \in 0..(Len(s) - Len(sub)) : SubSeq(s, i + 1, i + Len(sub)) = sub

\* Array.prototype.includes: x is an element of arr
ArrIncludes(arr, x) == \E i \in DOMAIN arr : arr[i] = x

RECURSIVE SplitFrom(_, _, _)
SplitFrom(s, i, word) ==
    IF i > Len(s) THEN <<word>>
    ELSE IF s[i] = " " THEN <<word>> \o SplitFrom(s, i + 1, <<>>)
    ELSE SplitFrom(s, i + 1, Append(word, s[i]))

\* s.split(' '): the words between single blanks, empty words included
Split(s) == SplitFrom(s, 1, <<>>)

RECURSIVE Filter(_, _)
\* arr.filter(x => x \in keep)
Filter(arr, keep) ==
    IF arr = <<>> THEN <<>>
    ELSE (IF Head(arr) \in keep THEN <<Head(arr)>> ELSE <<>>) \o Filter(Tail(arr), keep)

RECURSIVE Join(_, _)
\* arr.join(sep)
Join(arr, sep) ==
    IF arr = <<>> THEN <<>>
    ELSE IF Len(arr) = 1 THEN Head(arr)
    ELSE Head(arr) \o sep \o Join(Tail(arr), sep)

-----------------------------------------------------------------------------
(* Configuration and constants of the code                                 *)

BASE_URL == S("https://mcp.example.org")
KOAUTH_URL == S("https://auth.example.org")

TOOLS_READ == S("mcp:tools:read")
TOOLS_EXECUTE == S("mcp:tools:execute")
KURA_NOTES_SEARCH == S("kura:notes:search")

PARSE_ERROR == -32700
INVALID_REQUEST == -32600
METHOD_NOT_FOUND == -32601
INVALID_PARAMS == -32602
INTERNAL_ERROR == -32603

clockTolerance == 30

\* cacheMaxAge of the JWKS client, in milliseconds
cacheMaxAge == 3600000

BearerPrefix == <<"B", "e", "a", "r", "e", "r", " ">>

-----------------------------------------------------------------------------
(* Bearer tokens.  A raw token is an opaque string; Decode gives the JWT   *)
(* it encodes.  The tokens below are the ones clients present.             *)

\* The time at which tokens are verified, in seconds.
Now == 100000

\* The key ids published by the authorization server's key set.
JwksKids == {"k1"}

GoodJwt ==
    [wellFormed |-> TRUE, alg |-> "RS256", kid |-> "k1", sigOk |-> TRUE,
     hasExp |-> TRUE, exp |-> Now + 3600,
     iss |-> KOAUTH_URL, aud |-> BASE_URL,
     sub |-> S("user-1"), client_id |-> S("claude"),
     scopeType |-> "string",
     scope |-> TOOLS_READ \o S(" ") \o TOOLS_EXECUTE]

JwtTable ==
    [n \in {"jwt-RE", "jwt-R", "jwt-E", "jwt-RxEx", "jwt-RES", "jwt-S", "jwt-skew",
            "jwt-noexp", "jwt-badsig", "jwt-expired", "jwt-iss", "jwt-aud",
            "jwt-issaud", "jwt-nosub", "jwt-noclient", "jwt-noscope",
            "jwt-scopearr", "jwt-hs256", "jwt-kid9", "garbage"} |->
        CASE n = "jwt-RE" -> GoodJwt
          [] n = "jwt-R" -> [GoodJwt EXCEPT !.scope = TOOLS_READ, !.sub = S("user-2")]
          [] n = "jwt-E" -> [GoodJwt EXCEPT !.scope = TOOLS_EXECUTE]
          [] n = "jwt-RxEx" ->
                [GoodJwt EXCEPT !.scope = TOOLS_READ \o S("x") \o S(" ") \o S("x") \o TOOLS_EXECUTE]
          [] n = "jwt-RES" ->
                [GoodJwt EXCEPT !.scope = TOOLS_READ \o S(" ") \o TOOLS_EXECUTE \o S(" ")
                                          \o KURA_NOTES_SEARCH,
                                !.sub = S("user-2")]
          [] n = "jwt-S" -> [GoodJwt EXCEPT !.scope = KURA_NOTES_SEARCH]
          [] n = "jwt-skew" -> [GoodJwt EXCEPT !.exp = Now - clockTolerance + 1]
          [] n = "jwt-noexp" -> [GoodJwt EXCEPT !.hasExp = FALSE, !.exp = 0]
          [] n = "jwt-badsig" -> [GoodJwt EXCEPT !.sigOk = FALSE]
          [] n = "jwt-expired" -> [GoodJwt EXCEPT !.exp = Now - clockTolerance]
          [] n = "jwt-iss" -> [GoodJwt EXCEPT !.iss = S("https://evil.example.org")]
          [] n = "jwt-aud" -> [GoodJwt EXCEPT !.aud = S("https://other.example.org")]
          [] n = "jwt-issaud" -> [GoodJwt EXCEPT !.iss = S("https://evil.example.org"),
                                                 !.aud = S("https://other.example.org")]
          [] n = "jwt-nosub" -> [GoodJwt EXCEPT !.sub = <<>>]
          [] n = "jwt-noclient" -> [GoodJwt EXCEPT !.client_id = <<>>]
          [] n = "jwt-noscope" -> [GoodJwt EXCEPT !.scope = <<>>]
          [] n = "jwt-scopearr" -> [GoodJwt EXCEPT !.scopeType = "array"]
          [] n = "jwt-hs256" -> [GoodJwt EXCEPT !.alg = "HS256"]
          [] n = "jwt-kid9" -> [GoodJwt EXCEPT !.kid = "k9"]
          [] OTHER -> [GoodJwt EXCEPT !.wellFormed = FALSE]]

TokenStrings == {S(n) : n \in DOMAIN JwtTable}

\* jwt.decode: a string that is not one of the issued tokens is not a JWT
Decode(tok) ==
    IF tok \in TokenStrings THEN JwtTable[tok[1]]
    ELSE [GoodJwt EXCEPT !.wellFormed = FALSE]

\* The Authorization header values clients send; present = FALSE is no header.
NoHeader == [present |-> FALSE, value |-> <<>>]
HeaderOf(v) == [present |-> TRUE, value |-> v]

Headers ==
    {NoHeader,
     HeaderOf(<<>>),
     HeaderOf(<<"B", "a", "s", "i", "c", " ">> \o S("jwt-RE")),
     HeaderOf(<<"b", "e", "a", "r", "e", "r", " ">> \o S("jwt-RE")),
     HeaderOf(<<"B", "e", "a", "r", "e", "r">>),
     HeaderOf(BearerPrefix)}
    \cup {HeaderOf(BearerPrefix \o t) : t \in TokenStrings}

\* How the lookup of the signing key ended: the key set was fetched (or was
\* cached), or the fetch failed with the message of the network exception.
FetchFailures == {S("getaddrinfo ENOTFOUND auth.example.org"),
                  S("connect ECONNREFUSED 10.0.0.5:443")}

KeyResults == {[fetched |-> TRUE, msg |-> <<>>]}
              \cup {[fetched |-> FALSE, msg |-> m] : m \in FetchFailures}

-----------------------------------------------------------------------------
(* services/oauth.ts                                                       *)

\* client.getSigningKey(header.kid, cb) as called by getSigningKey
GetSigningKey(kid, kr) ==
    IF ~kr.fetched THEN [ok |-> FALSE, msg |-> kr.msg]
    ELSE IF kid \notin JwksKids
    THEN [ok |-> FALSE,
          msg |-> S("Unable to find a signing key that matches '") \o S(kid) \o S("'")]
    ELSE [ok |-> TRUE, msg |-> <<>>]

JwtFail(name, msg) == [ok |-> FALSE, name |-> name, message |-> msg, claims |-> GoodJwt]

\* jwt.verify(token, getSigningKey, {algorithms: ['RS256'], issuer, audience,
\* clockTolerance: 30}, cb): the checks of jsonwebtoken in its order
JwtVerify(tok, kr) ==
    LET jwt == Decode(tok)
        key == GetSigningKey(jwt.kid, kr)
    IN  IF ~jwt.wellFormed THEN JwtFail("JsonWebTokenError", <<"jwt", " ", "malformed">>)
        ELSE IF ~key.ok
        THEN JwtFail("JsonWebTokenError",
                     S("error in secret or public key callback: ") \o key.msg)
        ELSE IF jwt.alg # "RS256" THEN JwtFail("JsonWebTokenError", <<"invalid", " ", "algorithm">>)
        ELSE IF ~jwt.sigOk THEN JwtFail("JsonWebTokenError", <<"invalid", " ", "signature">>)
        ELSE IF jwt.hasExp /\ Now >= jwt.exp + clockTolerance
        THEN JwtFail("TokenExpiredError", <<"jwt", " ", "expired">>)
        ELSE IF jwt.aud # BASE_URL
        THEN JwtFail("JsonWebTokenError",
                     <<"jwt", " ", "audience", " ", "invalid", ".", " ", "expected:", " ">>
                     \o BASE_URL)
        ELSE IF jwt.iss # KOAUTH_URL
        THEN JwtFail("JsonWebTokenError",
                     <<"jwt", " ", "issuer", " ", "invalid", ".", " ", "expected:", " ">>
                     \o KOAUTH_URL)
        ELSE [ok |-> TRUE, name |-> "", message |-> <<>>, claims |-> jwt]

TokenValidationError(message, code) ==
    [ok |-> FALSE, code |-> code, message |-> message, claims |-> GoodJwt]

\* The texts verifyToken looks for in err.message (messages are kept word by word)
MsgInvalidSignature == <<"invalid", " ", "signature">>
MsgInvalidIssuer == <<"invalid", " ", "issuer">>
MsgInvalidAudience == <<"invalid", " ", "audience">>

VerifyErrorKind(err) ==
    IF err.name = "TokenExpiredError"
    THEN TokenValidationError(S("Token has expired"), S("token_expired"))
    ELSE IF err.name = "JsonWebTokenError" /\ StrIncludes(err.message, MsgInvalidSignature)
    THEN TokenValidationError(S("Invalid token signature"), S("invalid_signature"))
    ELSE IF err.name = "JsonWebTokenError" /\ StrIncludes(err.message, MsgInvalidIssuer)
    THEN TokenValidationError(S("Invalid token issuer"), S("invalid_issuer"))
    ELSE IF err.name = "JsonWebTokenError" /\ StrIncludes(err.message, MsgInvalidAudience)
    THEN TokenValidationError(S("Invalid token audience"), S("invalid_audience"))
    ELSE TokenValidationError(err.message, S("invalid_token"))

verifyToken(tok, kr) ==
    LET v == JwtVerify(tok, kr)
    IN  IF ~v.ok THEN VerifyErrorKind(v)
        ELSE IF v.claims.sub = <<>> \/ v.claims.client_id = <<>> \/ v.claims.scope = <<>>
        THEN TokenValidationError(S("Token missing required claims (sub, client_id, scope)"),
                                  S("invalid_token"))
        ELSE [ok |-> TRUE, code |-> <<>>, message |-> <<>>, claims |-> v.claims]

hasRequiredScopes(claims, requiredScopes) ==
    LET tokenScopes == Split(claims.scope)
    IN  \A i \in DOMAIN requiredScopes : ArrIncludes(tokenScopes, requiredScopes[i])

\* verifyTokenWithScopes(token, requiredScopes); v is the outcome of
\* verifyToken(token)
verifyTokenWithScopes(v, requiredScopes) ==
    IF ~v.ok THEN v
    ELSE IF ~hasRequiredScopes(v.claims, requiredScopes)
    THEN LET missing == Filter(requiredScopes,
                               {requiredScopes[i] : i \in {j \in DOMAIN requiredScopes :
                                    ~StrIncludes(v.claims.scope, requiredScopes[j])}})
         IN  TokenValidationError(S("Token lacks required scopes: ")
                                  \o Join(missing, <<",", " ">>),
                                  S("insufficient_scope"))
    ELSE v

-----------------------------------------------------------------------------
(* middleware/auth.ts                                                      *)

\* An HTTP response: status, the WWW-Authenticate header (<<>> when not set)
\* and the JSON body.
Response(status, wwwAuth, b) == [status |-> status, wwwAuth |-> wwwAuth, body |-> b]

OAuthBody(error, description) ==
    [kind |-> "oauth", error |-> error, error_description |-> description]

\* a challenge without the resource_metadata parameter
buildWWWAuthenticateHeader_NoMetadata(error, errorDescription) ==
    Join(<<S("Bearer realm=\"KOmcp MCP Server\"")>>
         \o (IF error # <<>> THEN <<S("error=\"") \o error \o S("\"")>> ELSE <<>>)
         \o (IF errorDescription # <<>>
             THEN <<S("error_description=\"") \o errorDescription \o S("\"")>>
             ELSE <<>>),
         <<",", " ">>)

\* error and errorDescription are <<>> when not given (or empty): both falsy
buildWWWAuthenticateHeader(error, errorDescription) ==
    Join(<<S("Bearer realm=\"KOmcp MCP Server\""),
           S("resource_metadata=\"") \o BASE_URL
               \o S("/.well-known/oauth-protected-resource") \o S("\"")>>
         \o (IF error # <<>> THEN <<S("error=\"") \o error \o S("\"")>> ELSE <<>>)
         \o (IF errorDescription # <<>>
             THEN <<S("error_description=\"") \o errorDescription \o S("\"")>>
             ELSE <<>>),
         <<",", " ">>)

Unauthorized(error, description, hdrError, hdrDescription) ==
    Response(401, buildWWWAuthenticateHeader(hdrError, hdrDescription),
             OAuthBody(error, description))

\* authMiddleware up to `await verifyToken(token)`: either a 401 has been sent
\* or the token has been extracted from the header.
AuthExtract(h) ==
    IF ~h.present \/ h.value = <<>>
    THEN [sent |-> TRUE, token |-> <<>>,
          resp |-> Unauthorized(S("unauthorized"), S("Missing Authorization header"),
                                <<>>, <<>>)]
    ELSE IF ~StartsWith(h.value, BearerPrefix)
    THEN [sent |-> TRUE, token |-> <<>>,
          resp |-> Unauthorized(S("invalid_token"),
                                S("Authorization header must use Bearer scheme"),
                                S("invalid_token"),
                                S("Authorization header must use Bearer scheme"))]
    ELSE IF Substring(h.value, 7) = <<>>
    THEN [sent |-> TRUE, token |-> <<>>,
          resp |-> Unauthorized(S("invalid_token"), S("Token is empty"),
                                S("invalid_token"), S("Token is empty"))]
    ELSE [sent |-> FALSE, token |-> Substring(h.value, 7), resp |-> <<>>]

UserContext(claims) ==
    [userId |-> claims.sub, clientId |-> claims.client_id, scopes |-> Split(claims.scope)]

\* authMiddleware without the return after a 401: the request goes on
AuthSettle_NoReturn(v) ==
    [sent |-> FALSE,
     user |-> IF v.ok /\ v.claims.scopeType = "string" THEN <<UserContext(v.claims)>> ELSE <<>>,
     resp |-> <<>>]

\* authMiddleware after `await verifyToken(token)` has settled with result v
AuthSettle(v) ==
    IF v.ok /\ v.claims.scopeType = "string"
    THEN [sent |-> FALSE, user |-> <<UserContext(v.claims)>>, resp |-> <<>>]
    ELSE IF ~v.ok
    THEN [sent |-> TRUE, user |-> <<>>,
          resp |-> Unauthorized(v.code, v.message, v.code, v.message)]
    ELSE \* claims.scope.split is not a function: not a TokenValidationError
         [sent |-> TRUE, user |-> <<>>,
          resp |-> Unauthorized(S("invalid_token"), S("Token validation failed"),
                                S("invalid_token"), S("Token validation failed"))]

\* missing scopes found by substring search in the scope string
MissingScopes_Substring(usr, requiredScopes) ==
    Filter(requiredScopes,
           {requiredScopes[i] : i \in {j \in DOMAIN requiredScopes :
                                         ~StrIncludes(Join(usr.scopes, S(" ")),
                                                      requiredScopes[j])}})

\* The scopes of requiredScopes that request.user.scopes does not include
MissingScopes(usr, requiredScopes) ==
    Filter(requiredScopes,
           {requiredScopes[i] : i \in {j \in DOMAIN requiredScopes :
                                         ~ArrIncludes(usr.scopes, requiredScopes[j])}})

\* requireScopes(requiredScopes)(request, reply); u is request.user (<<>> or <<user>>)
requireScopes(requiredScopes, u) ==
    IF u = <<>>
    THEN [sent |-> TRUE,
          resp |-> Response(401, <<>>,
                            OAuthBody(S("unauthorized"), S("Authentication required")))]
    ELSE IF ~(\A i \in DOMAIN requiredScopes : ArrIncludes(u[1].scopes, requiredScopes[i]))
    THEN [sent |-> TRUE,
          resp |-> Response(403, <<>>,
                     [kind |-> "oauth_scope",
                      error |-> S("insufficient_scope"),
                      error_description |->
                          S("Token lacks required scopes: ")
                          \o Join(MissingScopes(u[1], requiredScopes), <<",", " ">>),
                      scope |-> Join(requiredScopes, S(" "))])]
    ELSE [sent |-> FALSE, resp |-> <<>>]

-----------------------------------------------------------------------------
(* JSON values of the request body.  A value is its JavaScript type with   *)
(* the string or the number it holds; min_similarity is kept in hundredths.*)

JUndef == [type |-> "undefined", str |-> <<>>, num |-> 0]
JNull == [type |-> "null", str |-> <<>>, num |-> 0]
JStr(s) == [type |-> "string", str |-> s, num |-> 0]
JNum(n) == [type |-> "number", str |-> <<>>, num |-> n]
JArr == [type |-> "array", str |-> <<>>, num |-> 0]

\* !v is false
Truthy(v) ==
    CASE v.type = "string" -> v.str # <<>>
      [] v.type = "number" -> v.num # 0
      [] v.type \in {"undefined", "null"} -> FALSE
      [] OTHER -> TRUE

\* typeof v
TypeOf(v) == IF v.type \in {"null", "array"} THEN "object" ELSE v.type

\* v || null
OrNull_Falsy(v) == IF Truthy(v) THEN v ELSE JNull

\* v ?? null
OrNull(v) == IF v.type \in {"undefined", "null"} THEN JNull ELSE v

NoArgs(t) ==
    [type |-> t, query |-> JUndef, limit |-> JUndef, min_similarity |-> JUndef,
     content |-> JUndef, title |-> JUndef, note_id |-> JUndef]

ObjArgs == NoArgs("object")

NoParams(t) == [type |-> t, name |-> JUndef, arguments |-> NoArgs("undefined")]

Params(name, args) == [type |-> "object", name |-> name, arguments |-> args]

Rpc(version, id, method, params) ==
    [type |-> "object", jsonrpc |-> version, id |-> id, method |-> method, params |-> params]

NonObjectBody(t) ==
    [type |-> t, jsonrpc |-> JUndef, id |-> JUndef, method |-> JUndef,
     params |-> NoParams("undefined")]

V2 == JStr(S("2.0"))
ToolsList == JStr(<<"tools", "/", "list">>)
ToolsCall == JStr(<<"tools", "/", "call">>)

Call(id, name, args) == Rpc(V2, id, ToolsCall, Params(JStr(S(name)), args))

Ids == {JUndef, JNull, JNum(0), JStr(<<>>), JStr(S("a"))}

\* The request bodies clients send.
Bodies ==
    {NonObjectBody(t) : t \in {"null", "string", "number", "array"}}
    \cup {Rpc(v, JNum(1), ToolsList, NoParams("undefined")) :
            v \in {JUndef, JStr(S("1.0")), JNum(2)}}
    \cup {Rpc(V2, JNum(1), m, NoParams("undefined")) :
            m \in {JUndef, JStr(<<>>), JNum(5), JStr(<<"resources", "/", "list">>)}}
    \cup {Rpc(V2, i, ToolsList, NoParams("undefined")) : i \in Ids}
    \cup {Rpc(V2, JNum(1), ToolsCall, NoParams(t)) : t \in {"undefined", "string", "array"}}
    \cup {Rpc(V2, JNum(1), ToolsCall, Params(n, ObjArgs)) :
            n \in {JUndef, JNum(3), JStr(<<>>), JStr(S("drop_database"))}}
    \cup {Call(JNum(1), "search_kura_notes", a) :
            a \in {NoArgs("undefined"), NoArgs("string"), ObjArgs,
                   [ObjArgs EXCEPT !.query = JStr(<<>>)],
                   [ObjArgs EXCEPT !.query = JNum(4)]}
                  \cup {[ObjArgs EXCEPT !.query = JStr(S("docker")), !.limit = l] :
                          l \in {JUndef, JNull, JNum(0), JNum(50), JNum(51), JStr(S("5"))}}
                  \cup {[ObjArgs EXCEPT !.query = JStr(S("docker")), !.min_similarity = m] :
                          m \in {JNum(-1), JNum(100), JNum(101), JStr(S("0.5"))}}}
    \cup {Call(JNum(1), "create_note", a) :
            a \in {NoArgs("undefined"), ObjArgs,
                   [ObjArgs EXCEPT !.content = JStr(S("remember the milk"))],
                   [ObjArgs EXCEPT !.content = JStr(S("remember the milk")),
                                   !.title = JStr(S("groceries"))],
                   [ObjArgs EXCEPT !.content = JStr(S("remember the milk")),
                                   !.title = JNum(7)]}}
    \cup {Call(JNum(1), n, a) :
            n \in {"get_note", "delete_note"},
            a \in {NoArgs("null"), ObjArgs, [ObjArgs EXCEPT !.note_id = JNum(12)],
                   [ObjArgs EXCEPT !.note_id = JStr(S("note-12"))]}}
    \cup {Call(JNum(1), "list_recent_notes", NoArgs("undefined"))}
    \cup {Rpc(JStr(S("1.0")), i, ToolsList, NoParams("undefined")) : i \in Ids}

\* A GET request has no body.
NoBody == NonObjectBody("undefined")

\* The bodies sent with every kind of valid token
CoreBodies ==
    {Rpc(V2, JNum(1), ToolsList, NoParams("undefined")),
     Rpc(JStr(S("1.0")), JNum(1), ToolsList, NoParams("undefined")),
     Rpc(V2, JNum(1), JStr(<<>>), NoParams("undefined")),
     Call(JNum(1), "list_recent_notes", NoArgs("undefined")),
     Call(JNum(1), "search_kura_notes", [ObjArgs EXCEPT !.query = JStr(S("docker"))])}

Bearer(name) == HeaderOf(BearerPrefix \o S(name))

\* The headers whose token verifies when the key set can be fetched
ValidHeaders ==
    {Bearer(n) : n \in {"jwt-RE", "jwt-R", "jwt-E", "jwt-RxEx", "jwt-RES", "jwt-S",
                        "jwt-skew", "jwt-noexp", "jwt-scopearr"}}

\* The requests clients send: every header on both routes; with POST /mcp every
\* body under the token of full scope and the core bodies under every other
\* valid token (the body of a request that fails authentication is never read).
BodiesFor(rt, h) ==
    IF rt = "GET /protected" THEN {NoBody}
    ELSE IF h = Bearer("jwt-RE") THEN Bodies
    ELSE IF h \in ValidHeaders THEN CoreBodies
    ELSE {Rpc(V2, JNum(1), ToolsList, NoParams("undefined"))}

\* rpcRequest.<field>: a property read of a primitive or an array is undefined;
\* a property read of null throws (see BodyThrows)
Prop(b, field) == IF b.type = "object" THEN b[field] ELSE JUndef

BodyThrows(b) == b.type \in {"null", "undefined"}

-----------------------------------------------------------------------------
(* mcp/schemas.ts                                                          *)

\* The defaults the inputSchema of search_kura_notes declares: limit 10 and
\* min_similarity 0.7 (in hundredths)
DefaultLimit == 10
DefaultMinSimilarity == 70

MCP_TOOLS ==
    <<[name |-> S("search_kura_notes")], [name |-> S("create_note")],
      [name |-> S("get_note")], [name |-> S("list_recent_notes")],
      [name |-> S("delete_note")]>>

-----------------------------------------------------------------------------
(* routes/mcp.ts                                                           *)

createSuccessResponse(id, result) ==
    [kind |-> "jsonrpc", jsonrpc |-> S("2.0"), id |-> OrNull(id),
     members |-> {"result"}, result |-> result]

\* an error response that also carries a null result
createErrorResponse_WithResult(id, code, message, data) ==
    [kind |-> "jsonrpc", jsonrpc |-> S("2.0"), id |-> OrNull(id),
     members |-> {"result", "error"},
     error |-> [code |-> code, message |-> message, data |-> data]]

\* data is <<>> when not given
createErrorResponse(id, code, message, data) ==
    [kind |-> "jsonrpc", jsonrpc |-> S("2.0"), id |-> OrNull(id),
     members |-> {"error"},
     error |-> [code |-> code, message |-> message, data |-> data]]

\* What a handler has done when it returns or suspends: a reply was sent, or a
\* request to the notes service is in flight; tr lists the stages passed.
Sent(status, b, tr) ==
    [sent |-> TRUE, resp |-> Response(status, <<>>, b), call |-> <<>>, trace |-> tr]

Awaiting(c, tr) == [sent |-> FALSE, resp |-> <<>>, call |-> <<c>>, trace |-> tr]

\* the scope check by substring search in the scope string
HasScope_Substring(u, scope) == u # <<>> /\ StrIncludes(Join(u[1].scopes, S(" ")), scope)

HasScope(u, scope) == u # <<>> /\ ArrIncludes(u[1].scopes, scope)

\* a tool list filtered by the scopes of the caller
handleToolsList_Filtered(u, rpc) ==
    IF ~HasScope(u, TOOLS_READ)
    THEN Sent(403,
              createErrorResponse(Prop(rpc, "id"), INTERNAL_ERROR,
                  S("Insufficient scope. Required: mcp:tools:read"),
                  <<S("required_scope"), <<TOOLS_READ>>>>),
              <<"scope">>)
    ELSE Sent(200,
              createSuccessResponse(Prop(rpc, "id"),
                  [kind |-> "tools",
                   tools |-> IF HasScope(u, TOOLS_EXECUTE) THEN MCP_TOOLS ELSE <<>>]),
              <<"scope">>)

handleToolsList(u, rpc) ==
    IF ~HasScope(u, TOOLS_READ)
    THEN Sent(403,
              createErrorResponse(Prop(rpc, "id"), INTERNAL_ERROR,
                  S("Insufficient scope. Required: mcp:tools:read"),
                  <<S("required_scope"), <<TOOLS_READ>>>>),
              <<"scope">>)
    ELSE Sent(200,
              createSuccessResponse(Prop(rpc, "id"), [kind |-> "tools", tools |-> MCP_TOOLS]),
              <<"scope">>)

InvalidParams(rpc, message, tr) ==
    Sent(400, createErrorResponse(Prop(rpc, "id"), INVALID_PARAMS, message, <<>>), tr)

\* !v || typeof v !== 'object', for params and for the tool arguments: a primitive,
\* null and undefined fail; an object and an array pass
NotAnObject(v) == v.type \notin {"object", "array"}

\* a test of the type alone, which lets the empty string through
NotAString_TypeOnly(v) == TypeOf(v) # "string"

\* !v || typeof v !== 'string'
NotAString(v) == ~Truthy(v) \/ TypeOf(v) # "string"

\* a lower bound of 0 for limit
LimitInvalid_ZeroAllowed(l) ==
    l.type # "undefined" /\ (TypeOf(l) # "number" \/ l.num < 0 \/ l.num > 50)

\* toolArgs.limit !== undefined && (typeof toolArgs.limit !== 'number' || ... < 1 || ... > 50)
LimitInvalid(l) ==
    l.type # "undefined" /\ (TypeOf(l) # "number" \/ l.num < 1 \/ l.num > 50)

\* the same test for min_similarity, between 0 and 1 (in hundredths)
MinSimilarityInvalid(m) ==
    m.type # "undefined" /\ (TypeOf(m) # "number" \/ m.num < 0 \/ m.num > 100)

\* The argument checks of the five tool handlers: <<>> when the arguments pass,
\* else the message of the invalid-params reply
ArgumentError(tool, a) ==
    IF tool = S("list_recent_notes") THEN <<>>
    ELSE IF NotAnObject(a) THEN S("Invalid tool arguments. Expected object.")
    ELSE IF tool = S("search_kura_notes")
    THEN IF NotAString(a.query) THEN S("Missing or invalid \"query\" parameter")
         ELSE IF LimitInvalid(a.limit)
         THEN S("Invalid \"limit\" parameter. Must be a number between 1 and 50.")
         ELSE IF MinSimilarityInvalid(a.min_similarity)
         THEN S("Invalid \"min_similarity\" parameter. Must be a number between 0 and 1.")
         ELSE <<>>
    ELSE IF tool = S("create_note")
    THEN IF NotAString(a.content) THEN S("Missing or invalid \"content\" parameter")
         ELSE <<>>
    ELSE IF NotAString(a.note_id) THEN S("Missing or invalid \"note_id\" parameter")
         ELSE <<>>

\* the prefix cut one character short
AccessToken_OffByOne(h) == Substring(h.value, 6)

\* request.headers.authorization.substring(7), the token handed to the executor
AccessToken(h) == Substring(h.value, 7)

\* The fetch() that the executor's KuraClient method sends for the tool
KuraRequest(tool, accessToken, a) ==
    [tool |-> tool,
     authorization |-> BearerPrefix \o accessToken,
     query |-> IF tool = S("search_kura_notes") THEN a.query ELSE JUndef,
     limit |-> IF tool = S("search_kura_notes") /\ Truthy(a.limit)
               THEN JStr(S(ToString(a.limit.num)))
               ELSE JUndef,
     min_similarity |-> JUndef,
     content |-> IF tool = S("create_note") THEN a.content ELSE JUndef,
     title |-> IF tool = S("create_note") THEN a.title ELSE JUndef,
     note_id |-> IF tool \in {S("get_note"), S("delete_note")} THEN a.note_id ELSE JUndef]

\* handleSearchKuraNotes, handleCreateNote, handleGetNote, handleListRecentNotes
\* and handleDeleteNote up to `await execute...(accessToken, input)`
handleTool(tool, h, rpc, a) ==
    IF ArgumentError(tool, a) # <<>> THEN InvalidParams(rpc, ArgumentError(tool, a), <<"scope">>)
    ELSE IF ~h.present \/ h.value = <<>> \/ ~StartsWith(h.value, BearerPrefix)
    THEN Sent(500,
              createErrorResponse(Prop(rpc, "id"), INTERNAL_ERROR,
                  S("Internal server error: Access token not found"), <<>>),
              <<"scope">>)
    ELSE Awaiting(KuraRequest(tool, AccessToken(h), a), <<"scope", "executor", "upstream">>)

\* The case labels of the switch over the tool name
ToolNames ==
    {S("search_kura_notes"), S("create_note"), S("get_note"), S("list_recent_notes"),
     S("delete_note")}

\* a list written before delete_note was added
AvailableTools_Stale ==
    <<S("search_kura_notes"), S("create_note"), S("get_note"), S("list_recent_notes")>>

\* The available_tools array of the unknown-tool reply
AvailableTools ==
    <<S("search_kura_notes"), S("create_note"), S("get_note"), S("list_recent_notes"),
      S("delete_note")>>

\* an unknown tool name reported as invalid params
UnknownTool_InvalidParams(rpc, name) ==
    Sent(400,
         createErrorResponse(Prop(rpc, "id"), INVALID_PARAMS, S("Unknown tool: ") \o name.str,
                             <<S("available_tools"), AvailableTools>>),
         <<"scope">>)

\* The default case of the switch over the tool name
UnknownTool(rpc, name) ==
    Sent(404,
         createErrorResponse(Prop(rpc, "id"), METHOD_NOT_FOUND, S("Unknown tool: ") \o name.str,
                             <<S("available_tools"), AvailableTools>>),
         <<"scope">>)

handleToolsCall(h, u, rpc) ==
    LET params == rpc.params
        name == params.name
    IN  IF ~HasScope(u, TOOLS_EXECUTE)
        THEN Sent(403,
                  createErrorResponse(Prop(rpc, "id"), INTERNAL_ERROR,
                      S("Insufficient scope. Required: mcp:tools:execute"),
                      <<S("required_scope"), <<TOOLS_EXECUTE>>>>),
                  <<"scope">>)
        ELSE IF NotAnObject(params)
        THEN InvalidParams(rpc, S("Missing or invalid params field"), <<"scope">>)
        ELSE IF NotAString(name)
        THEN InvalidParams(rpc, S("Missing or invalid tool name"), <<"scope">>)
        ELSE IF name.str \in ToolNames
        THEN handleTool(name.str, h, rpc, params.arguments)
        ELSE UnknownTool(rpc, name)

Prepend(e, out) == [out EXCEPT !.trace = <<e>> \o @]

\* The handler of POST /mcp, run after the preHandler let the request through
mcpHandler(h, u, rpc) ==
    IF BodyThrows(rpc)
    THEN Sent(500, createErrorResponse(JNull, INTERNAL_ERROR, S("Internal server error"), <<>>),
              <<"envelope">>)
    ELSE IF Prop(rpc, "jsonrpc") # V2
    THEN Sent(400,
              createErrorResponse(Prop(rpc, "id"), INVALID_REQUEST,
                  S("Invalid JSON-RPC version. Must be \"2.0\""), <<>>),
              <<"envelope">>)
    ELSE IF NotAString(Prop(rpc, "method"))
    THEN Sent(400,
              createErrorResponse(Prop(rpc, "id"), INVALID_REQUEST,
                  S("Missing or invalid method field"), <<>>),
              <<"envelope">>)
    ELSE IF rpc.method = ToolsList THEN Prepend("envelope", handleToolsList(u, rpc))
    ELSE IF rpc.method = ToolsCall THEN Prepend("envelope", handleToolsCall(h, u, rpc))
    ELSE Sent(404,
              createErrorResponse(Prop(rpc, "id"), METHOD_NOT_FOUND,
                  S("Method not found: ") \o rpc.method.str, <<>>),
              <<"envelope">>)

-----------------------------------------------------------------------------
(* services/kura-client.ts and mcp/tools/*.ts                              *)

KURA_URL == S("https://kura.tillmaessen.de")

\* How a fetch() to the notes service can end: a reply with a status, a body
\* text and (for a 2xx reply) the JSON it parses to, or an exception.
HttpReply(status, text, json) ==
    [kind |-> "http", status |-> status, text |-> text, json |-> json,
     errType |-> "", message |-> <<>>]

FetchThrows(errType, message) ==
    [kind |-> "throw", status |-> 0, text |-> <<>>, json |-> "", errType |-> errType,
     message |-> message]

UpResults ==
    {HttpReply(200, <<>>, j) : j \in {"empty", "some", "null", "invalid"}}
    \cup {HttpReply(st, t, "") : st \in {401, 500},
                                 t \in {S("{\"error\":\"boom\"}"),
                                        S("pg: connection to postgres://kura:pw@db failed")}}
    \cup {HttpReply(st, S("{\"error\":\"boom\"}"), "") : st \in {403, 404}}
    \cup {FetchThrows("TypeError", <<"fetch", " ", "failed">>),
          FetchThrows("Error", <<"socket", " ", "hang", " ", "up">>)}

KuraApiError(message, statusCode) ==
    [ok |-> FALSE, kura |-> TRUE, message |-> message, statusCode |-> statusCode, json |-> ""]

\* The words each KuraClient method puts into its messages
OpWords(tool) ==
    CASE tool = S("search_kura_notes") -> S("search Kura")
      [] tool = S("create_note") -> S("create note")
      [] tool = S("get_note") -> S("get note")
      [] tool = S("list_recent_notes") -> S("list recent notes")
      [] OTHER -> S("delete note")

StatusText(st) == S(ToString(st))

\* KuraClient.search / createNote / getNote / listRecentNotes / deleteNote, from
\* the reply of fetch() on: every failure leaves as a KuraApiError
KuraClientResult(c, up) ==
    IF up.kind = "throw"
    THEN IF c.tool = S("search_kura_notes") /\ up.errType = "TypeError"
            /\ StrIncludes(up.message, S("fetch"))
         THEN KuraApiError(S("Failed to connect to Kura at ") \o KURA_URL
                           \o S(". Is Kura running?"), 0)
         ELSE KuraApiError(S("Failed to ") \o OpWords(c.tool) \o S(": ") \o up.message, 0)
    ELSE IF up.status \notin 200..299
    THEN IF c.tool = S("search_kura_notes") /\ up.status = 401
         THEN KuraApiError(S("Unauthorized: Invalid or expired access token"), 401)
         ELSE IF c.tool = S("search_kura_notes") /\ up.status = 403
         THEN KuraApiError(S("Forbidden: Insufficient permissions to access Kura"), 403)
         ELSE IF c.tool = S("search_kura_notes") /\ up.status = 404
         THEN KuraApiError(S("Kura API endpoint not found. Is Kura running?"), 404)
         ELSE IF c.tool = S("search_kura_notes")
         THEN KuraApiError(S("Kura API error (") \o StatusText(up.status) \o S("): ")
                           \o up.text, up.status)
         ELSE IF c.tool \in {S("get_note"), S("delete_note")} /\ up.status = 404
         THEN KuraApiError(S("Note with ID \"") \o c.note_id.str \o S("\" not found"), 404)
         ELSE KuraApiError(S("Failed to ") \o OpWords(c.tool) \o S(" (")
                           \o StatusText(up.status) \o S("): ") \o up.text, up.status)
    ELSE IF c.tool = S("delete_note")
    THEN [ok |-> TRUE, kura |-> FALSE, message |-> <<>>, statusCode |-> 0, json |-> "deleted"]
    ELSE IF up.json = "invalid"
    THEN KuraApiError(S("Failed to ") \o OpWords(c.tool) \o S(": ")
                      \o S("Unexpected token < in JSON at position 0"), 0)
    ELSE [ok |-> TRUE, kura |-> FALSE, message |-> <<>>, statusCode |-> 0, json |-> up.json]

ToolResult(text, isError) ==
    [kind |-> "tool_result", content |-> <<[type |-> "text", text |-> text]>>,
     isError |-> isError]

\* What an executor hands back to its handler: a ToolResult, or an exception
Returns(result) == [threw |-> FALSE, result |-> result, message |-> <<>>]
Throws(message) == [threw |-> TRUE, result |-> ToolResult(<<>>, TRUE), message |-> message]

ErrorHint(tool, statusCode) ==
    IF statusCode = 401 THEN S("Your access token may have expired. Please re-authenticate.")
    ELSE IF statusCode = 404
    THEN CASE tool = S("get_note") -> S("The note may have been deleted or the ID is incorrect.")
           [] tool = S("delete_note") ->
                S("The note may have already been deleted or the ID is incorrect.")
           [] OTHER -> S("Make sure Kura is running and accessible.")
    ELSE S("Please try again or contact support if the problem persists.")

\* a catch block that rethrows what the notes service caused
ExecutorCatch_Rethrow(c, err) ==
    IF err.kura THEN Throws(err.message)
    ELSE Returns(ToolResult(S("Unexpected Error\n\nAn unexpected error occurred: ")
                            \o err.message, TRUE))

\* The catch block of executeSearchNotes, executeCreateNote, executeGetNote,
\* executeListRecentNotes and executeDeleteNote; err is what the try block threw
ExecutorCatch(c, err) ==
    IF err.kura
    THEN Returns(ToolResult(S("Failed: ") \o OpWords(c.tool) \o S("\n\n") \o err.message
                            \o S("\n\n") \o ErrorHint(c.tool, err.statusCode), TRUE))
    ELSE Returns(ToolResult(S("Unexpected Error\n\nAn unexpected error occurred: ")
                            \o err.message, TRUE))

\* an executor that formats the reply outside its try block
Executor_FormatOutsideTry(c, up) ==
    LET r == KuraClientResult(c, up)
    IN  IF ~r.ok THEN ExecutorCatch(c, r)
        ELSE IF r.json = "null" THEN Throws(S("Cannot read properties of null"))
        ELSE Returns(ToolResult(S("OK: ") \o OpWords(c.tool) \o S(" ") \o S(r.json), FALSE))

\* The executor of the tool, from the reply of fetch() on
Executor(c, up) ==
    LET r == KuraClientResult(c, up)
    IN  IF ~r.ok THEN ExecutorCatch(c, r)
        ELSE IF r.json = "null"
        THEN \* reading a member of the parsed reply throws a TypeError
             ExecutorCatch(c, [ok |-> FALSE, kura |-> FALSE, statusCode |-> 0, json |-> "",
                               message |-> S("Cannot read properties of null")])
        ELSE Returns(ToolResult(S("OK: ") \o OpWords(c.tool) \o S(" ") \o S(r.json), FALSE))

\* The rest of the tool handler, after `await execute...` has settled
toolReply(rpc, ex) ==
    IF ex.threw
    THEN Response(500, <<>>,
             createErrorResponse(Prop(rpc, "id"), INTERNAL_ERROR, S("Tool execution failed"),
                                 <<S("error"), <<ex.message>>>>))
    ELSE Response(200, <<>>, createSuccessResponse(Prop(rpc, "id"), ex.result))

-----------------------------------------------------------------------------
(* server.ts and the life of a request                                     *)

\* The routes buildServer registers
BuildServerRoutes ==
    {"GET /.well-known/oauth-protected-resource", "GET /health", "GET /protected"}

McpRoute == "POST /mcp"

RequestRoutes == {McpRoute, "GET /protected"}

\* Fastify's reply to a request for a route that is not registered
RouteNotFound == Response(404, <<>>, [kind |-> "route_not_found"])

\* The handler of GET /protected
protectedHandler(u) ==
    Response(200, <<>>, [kind |-> "protected",
                         message |-> S("You have successfully authenticated!"),
                         user |-> u[1]])

NoGate == [scope |-> <<>>, required |-> <<>>, out |-> <<>>]

\* The connections before any request
Idle ==
    /\ pc = [r \in ReqIds |-> "idle"]
    /\ route = [r \in ReqIds |-> ""]
    /\ header = [r \in ReqIds |-> NoHeader]
    /\ token = [r \in ReqIds |-> <<>>]
    /\ keyRes = [r \in ReqIds |-> <<>>]
    /\ user = [r \in ReqIds |-> <<>>]
    /\ body = [r \in ReqIds |-> <<>>]
    /\ call = [r \in ReqIds |-> <<>>]
    /\ upRes = [r \in ReqIds |-> <<>>]
    /\ resp = [r \in ReqIds |-> <<>>]
    /\ trace = [r \in ReqIds |-> <<>>]

\* The JWKS client after construction: nothing cached
NoKeys == [clock |-> 0, cachedAt |-> -1, log |-> <<>>]

Init ==
    /\ routes = BuildServerRoutes
    /\ listening = FALSE
    /\ gate = NoGate
    /\ jwks = NoKeys
    /\ Idle

\* registerMcpRoutes(server): adds POST /mcp with preHandler [authMiddleware]
RegisterMcpRoutes ==
    /\ ~listening
    /\ McpRoute \notin routes
    /\ routes' = routes \cup {McpRoute}
    /\ UNCHANGED <<pc, route, header, keyRes, user, body, call, upRes, resp, trace, token,
                   listening, gate, jwks>>

\* startServer(server)
StartServer ==
    /\ ~listening
    /\ listening' = TRUE
    /\ UNCHANGED <<routes, pc, route, header, keyRes, user, body, call, upRes, resp, trace,
                   token, gate, jwks>>

\* A request arrives: the router looks the route up and the preHandler
\* authMiddleware runs up to `await verifyToken(token)`.
Receive(r, rt, h) ==
    /\ listening
    /\ pc[r] = "idle"
    /\ route' = [route EXCEPT ![r] = rt]
    /\ header' = [header EXCEPT ![r] = h]
    /\ IF rt \notin routes
       THEN /\ resp' = [resp EXCEPT ![r] = <<RouteNotFound>>]
            /\ pc' = [pc EXCEPT ![r] = "done"]
            /\ UNCHANGED <<trace, token>>
       ELSE LET a == AuthExtract(h)
            IN  /\ trace' = [trace EXCEPT ![r] = <<"auth">>]
                /\ token' = [token EXCEPT ![r] = a.token]
                /\ IF a.sent
                   THEN /\ resp' = [resp EXCEPT ![r] = <<a.resp>>]
                        /\ pc' = [pc EXCEPT ![r] = "done"]
                   ELSE /\ pc' = [pc EXCEPT ![r] = "verifying"]
                        /\ UNCHANGED resp
    /\ UNCHANGED <<routes, listening, keyRes, user, body, call, upRes, gate, jwks>>

\* verifyToken settles (kr: how the key lookup ended); authMiddleware finishes
\* and, if it sent no reply, the next preHandler and the route handler run up
\* to their reply or to the `await` of the executor's fetch().
Verified(r, kr, b) ==
    /\ pc[r] = "verifying"
    /\ keyRes' = [keyRes EXCEPT ![r] = <<kr>>]
    /\ LET a == AuthSettle(verifyToken(token[r], kr))
       IN  /\ user' = [user EXCEPT ![r] = a.user]
           /\ IF a.sent
              THEN /\ resp' = [resp EXCEPT ![r] = <<a.resp>>]
                   /\ pc' = [pc EXCEPT ![r] = "done"]
                   /\ UNCHANGED <<body, call, trace>>
              ELSE IF route[r] = McpRoute
              THEN LET out == mcpHandler(header[r], a.user, b)
                   IN  /\ body' = [body EXCEPT ![r] = <<b>>]
                       /\ trace' = [trace EXCEPT ![r] = @ \o out.trace]
                       /\ call' = [call EXCEPT ![r] = out.call]
                       /\ resp' = [resp EXCEPT ![r] = IF out.sent THEN <<out.resp>> ELSE <<>>]
                       /\ pc' = [pc EXCEPT ![r] = IF out.sent THEN "done" ELSE "upstream"]
              ELSE LET g == requireScopes(<<TOOLS_READ>>, a.user)
                   IN  /\ trace' = [trace EXCEPT ![r] = @ \o <<"scope">>]
                       /\ resp' = [resp EXCEPT ![r] =
                                     IF g.sent THEN <<g.resp>> ELSE <<protectedHandler(a.user)>>]
                       /\ pc' = [pc EXCEPT ![r] = "done"]
                       /\ UNCHANGED <<body, call>>
    /\ UNCHANGED <<routes, listening, route, header, token, upRes, gate, jwks>>

\* The fetch() to the notes service settles with up; the executor and the tool
\* handler finish and the reply is sent.
UpstreamReply(r, up) ==
    /\ pc[r] = "upstream"
    /\ upRes' = [upRes EXCEPT ![r] = <<up>>]
    /\ resp' = [resp EXCEPT ![r] = <<toolReply(body[r][1], Executor(call[r][1], up))>>]
    /\ pc' = [pc EXCEPT ![r] = "done"]
    /\ UNCHANGED <<routes, listening, route, header, token, keyRes, user, body, call, trace,
                   gate, jwks>>

\* The exchange is over; the connection takes the next request.
Close(r) ==
    /\ pc[r] = "done"
    /\ pc' = [pc EXCEPT ![r] = "idle"]
    /\ route' = [route EXCEPT ![r] = ""]
    /\ header' = [header EXCEPT ![r] = NoHeader]
    /\ token' = [token EXCEPT ![r] = <<>>]
    /\ keyRes' = [keyRes EXCEPT ![r] = <<>>]
    /\ user' = [user EXCEPT ![r] = <<>>]
    /\ body' = [body EXCEPT ![r] = <<>>]
    /\ call' = [call EXCEPT ![r] = <<>>]
    /\ upRes' = [upRes EXCEPT ![r] = <<>>]
    /\ resp' = [resp EXCEPT ![r] = <<>>]
    /\ trace' = [trace EXCEPT ![r] = <<>>]
    /\ UNCHANGED <<routes, listening, gate, jwks>>

Next ==
    \/ RegisterMcpRoutes
    \/ StartServer
    \/ \E r \in ReqIds, rt \in RequestRoutes, h \in Headers : Receive(r, rt, h)
    \/ \E r \in ReqIds, kr \in KeyResults :
          \E b \in BodiesFor(route[r], header[r]) : Verified(r, kr, b)
    \/ \E r \in ReqIds, up \in UpResults : UpstreamReply(r, up)
    \/ \E r \in ReqIds : Close(r)

Spec == Init /\ [][Next]_vars

-----------------------------------------------------------------------------
(* The scope gate requireScopes on its own, for every token scope string   *)
(* of bounded length and every list of required scopes.                    *)

MaxScopeLen == 4

ScopeAlphabet == {"mcp:tools:read", "mcp:tools:execute", "kura:notes:search", "x", " "}

RECURSIVE StringsOfLen(_)
StringsOfLen(n) ==
    IF n = 0 THEN {<<>>}
    ELSE {Append(w, c) : w \in StringsOfLen(n - 1), c \in ScopeAlphabet}

\* The scope claims of verified tokens: non-empty strings
ScopeStrings == UNION {StringsOfLen(n) : n \in 1..MaxScopeLen}

RequiredLists ==
    {<<TOOLS_READ>>, <<TOOLS_EXECUTE>>, <<TOOLS_READ, TOOLS_EXECUTE>>,
     <<TOOLS_EXECUTE, KURA_NOTES_SEARCH>>,
     <<TOOLS_READ, TOOLS_EXECUTE, KURA_NOTES_SEARCH>>}

InitGate ==
    /\ routes = BuildServerRoutes
    /\ listening = FALSE
    /\ Idle
    /\ gate \in [scope : ScopeStrings, required : RequiredLists, out : {<<>>}]
    /\ jwks = NoKeys

\* authMiddleware has accepted a token with scope gate.scope; the preHandler
\* requireScopes(gate.required) runs, and so does the scope check of tools/list;
\* verifyTokenWithScopes checks the same verified token against gate.required.
RunGate ==
    /\ gate.out = <<>>
    /\ gate' = [gate EXCEPT !.out =
                  LET u == <<UserContext([GoodJwt EXCEPT !.scope = gate.scope])>>
                  IN  <<requireScopes(gate.required, u),
                        handleToolsList(u, Rpc(V2, JNum(1), ToolsList, NoParams("undefined"))),
                        verifyTokenWithScopes(
                            [ok |-> TRUE, code |-> <<>>, message |-> <<>>,
                             claims |-> [GoodJwt EXCEPT !.scope = gate.scope]],
                            gate.required)>>]
    /\ UNCHANGED <<routes, pc, route, header, keyRes, user, body, call, upRes, resp, trace,
                   token, listening, jwks>>

NextGate == RunGate

SpecGate == InitGate /\ [][NextGate]_vars

-----------------------------------------------------------------------------
(* The signing-key cache on its own: verifyToken called again and again    *)
(* for tokens of kid k1 while time passes.  The client is built with       *)
(* cache: true and cacheMaxAge: a fetched key is kept for cacheMaxAge ms,  *)
(* a failed fetch caches nothing.                                          *)

MaxVerifications == 3
MaxTicks == 3

\* Time passes in steps of 40 minutes
TickMs == (2 * cacheMaxAge) \div 3

\* The tokens verified: one with a good signature, one with a bad one
KeyTokens == {S("jwt-RE"), S("jwt-badsig")}

\* The key of kid k1 is in the cache and younger than cacheMaxAge
KeyCached == jwks.cachedAt >= 0 /\ jwks.clock - jwks.cachedAt < cacheMaxAge

\* The record of one verification: whether the key set was fetched for it,
\* when the key it found in the cache had been cached (-1: none), and the
\* outcome of verifyToken
Verification(fetched, v) ==
    [fetched |-> fetched, at |-> jwks.clock, keyAt |-> jwks.cachedAt,
     ok |-> v.ok, code |-> v.code]

InitKeys ==
    /\ routes = BuildServerRoutes
    /\ listening = FALSE
    /\ gate = NoGate
    /\ jwks = NoKeys
    /\ Idle

\* verifyToken(tok) while the key is cached: getSigningKey answers from the
\* cache.  Whatever jwt.verify then reports, the invalid signature included,
\* verifyToken only rejects: the cache stays as it is.
VerifyCached(tok) ==
    /\ Len(jwks.log) < MaxVerifications
    /\ KeyCached
    /\ jwks' = [jwks EXCEPT !.log = Append(@,
                    Verification(FALSE, verifyToken(tok, [fetched |-> TRUE, msg |-> <<>>])))]
    /\ UNCHANGED <<routes, pc, route, header, keyRes, user, body, call, upRes, resp, trace,
                   token, listening, gate>>

\* verifyToken(tok) while the key is not cached or too old: getSigningKey
\* fetches the key set; kr is the outcome of the fetch.
VerifyFetch(tok, kr) ==
    /\ Len(jwks.log) < MaxVerifications
    /\ ~KeyCached
    /\ jwks' = [jwks EXCEPT !.cachedAt = IF kr.fetched THEN jwks.clock ELSE -1,
                            !.log = Append(@, Verification(TRUE, verifyToken(tok, kr)))]
    /\ UNCHANGED <<routes, pc, route, header, keyRes, user, body, call, upRes, resp, trace,
                   token, listening, gate>>

Tick ==
    /\ jwks.clock < MaxTicks * TickMs
    /\ jwks' = [jwks EXCEPT !.clock = @ + TickMs]
    /\ UNCHANGED <<routes, pc, route, header, keyRes, user, body, call, upRes, resp, trace,
                   token, listening, gate>>

NextKeys ==
    \/ \E tok \in KeyTokens : VerifyCached(tok)
    \/ \E tok \in KeyTokens, kr \in KeyResults : VerifyFetch(tok, kr)
    \/ Tick

SpecKeys == InitKeys /\ [][NextKeys]_vars

-----------------------------------------------------------------------------
(* Properties                                                              *)

Done(r) == pc[r] = "done"

\* authMiddleware let the request of connection r through
Accepted(r) == keyRes[r] # <<>> /\ user[r] # <<>>

\* name is one of the blank-separated scopes of the scope string s
HoldsScope(s, name) ==
    \E i \in 1..Len(s) :
        LET j == i + Len(name) - 1
        IN  /\ j <= Len(s)
            /\ SubSeq(s, i, j) = name
            /\ (i = 1 \/ s[i - 1] = " ")
            /\ (j = Len(s) \/ s[j + 1] = " ")

\* The scope claim of the token connection r presented
ScopeOf(r) == Decode(token[r]).scope

IsJsonRpc(r) == resp[r] # <<>> /\ resp[r][1].body.kind = "jsonrpc"

HasResult(r) == IsJsonRpc(r) /\ resp[r][1].body.members = {"result"}

HasError(r) == IsJsonRpc(r) /\ resp[r][1].body.members = {"error"}

\* C1: on POST /mcp nothing of the JSON-RPC handling (body read, envelope or
\* scope check, executor, request to the notes service) happens unless
\* authMiddleware accepted the token first, and a request that fails
\* authentication ends with its 401 reply and nothing else.
C1_AuthBeforeBody ==
    \A r \in ReqIds :
        route[r] = McpRoute =>
            /\ (body[r] # <<>> \/ call[r] # <<>> \/ upRes[r] # <<>> \/ Len(trace[r]) > 1)
                  => (Accepted(r) /\ trace[r][1] = "auth")
            /\ (Done(r) /\ trace[r] # <<>> /\ ~Accepted(r))
                  => /\ resp[r][1].status = 401
                     /\ resp[r][1].body.kind = "oauth"
                     /\ trace[r] = <<"auth">>
                     /\ body[r] = <<>> /\ call[r] = <<>> /\ upRes[r] = <<>>

\* One request was refused with 401 after a failed verification while another
\* one went through authentication to the notes service.
C1_Witness ==
    \E r1, r2 \in ReqIds :
        /\ route[r1] = McpRoute /\ Done(r1) /\ keyRes[r1] # <<>> /\ ~Accepted(r1)
        /\ route[r2] = McpRoute /\ pc[r2] = "upstream"
        /\ trace[r2] = <<"auth", "envelope", "scope", "executor", "upstream">>

\* C2: tools/list returns the tool list only if mcp:tools:read is one of the
\* blank-separated scopes of the verified token, and tools/call reaches an
\* executor and the notes service only if mcp:tools:execute is one of them; a
\* scope that only contains the name as a substring does not count.
C2_ScopeGates ==
    \A r \in ReqIds :
        /\ (HasResult(r) /\ resp[r][1].body.result.kind = "tools")
              => (Accepted(r) /\ HoldsScope(ScopeOf(r), TOOLS_READ))
        /\ (call[r] # <<>> \/ upRes[r] # <<>>
            \/ (HasResult(r) /\ resp[r][1].body.result.kind = "tool_result"))
              => (Accepted(r) /\ HoldsScope(ScopeOf(r), TOOLS_EXECUTE))

\* A token whose scopes are mcp:tools:readx and xmcp:tools:execute was refused
\* tools/list, while a token holding mcp:tools:read was given the list.
C2_Witness ==
    \E r1, r2 \in ReqIds :
        /\ token[r1] = S("jwt-RxEx") /\ Done(r1) /\ body[r1] # <<>>
        /\ body[r1][1].method = ToolsList /\ body[r1][1].jsonrpc = V2
        /\ resp[r1][1].status = 403
        /\ StrIncludes(ScopeOf(r1), TOOLS_READ)
        /\ HasResult(r2) /\ resp[r2][1].body.result.kind = "tools"

\* C3: every request sent to the notes service carries as bearer credential
\* exactly the token that authMiddleware verified for the inbound request that
\* caused it.
C3_TokenPassthrough ==
    \A r \in ReqIds :
        call[r] # <<>> =>
            /\ Accepted(r)
            /\ token[r] # <<>>
            /\ verifyToken(token[r], keyRes[r][1]).ok
            /\ call[r][1].authorization = BearerPrefix \o token[r]

\* Two requests with different tokens are at the notes service at once.
C3_Witness ==
    \E r1, r2 \in ReqIds :
        /\ pc[r1] = "upstream" /\ pc[r2] = "upstream"
        /\ token[r1] # token[r2]
        /\ call[r1][1].authorization # call[r2][1].authorization

\* C4: the server returned by buildServer serves POST /mcp as a protected
\* route: a POST /mcp request is routed to authMiddleware and the JSON-RPC
\* handler.
C4_BuildServerServesMcp ==
    \A r \in ReqIds :
        (routes = BuildServerRoutes /\ route[r] = McpRoute /\ Done(r))
            => (resp[r][1] # RouteNotFound /\ trace[r] # <<>> /\ trace[r][1] = "auth")

\* The one check a token fails, when its key can be fetched: "none" for a
\* sound token, "other" when it is none of the four.
FaultOf(tok) ==
    LET j == Decode(tok)
    IN  IF tok \notin TokenStrings THEN "other"
        ELSE IF j = [GoodJwt EXCEPT !.sigOk = FALSE] THEN "signature"
        ELSE IF j.hasExp /\ j.exp + clockTolerance <= Now
                /\ [j EXCEPT !.exp = GoodJwt.exp] = GoodJwt THEN "expired"
        ELSE IF j.iss # KOAUTH_URL /\ [j EXCEPT !.iss = KOAUTH_URL] = GoodJwt THEN "issuer"
        ELSE IF j.aud # BASE_URL /\ [j EXCEPT !.aud = BASE_URL] = GoodJwt THEN "audience"
        ELSE "other"

FourFaults == {"signature", "expired", "issuer", "audience"}

\* The verification of connection r is over and its key could be fetched
VerifiedWithKey(r) == keyRes[r] # <<>> /\ keyRes[r][1].fetched /\ resp[r] # <<>>

\* C5: a token with an invalid signature, an expired token, a token of another
\* issuer and a token for another audience are each refused with 401 and a
\* WWW-Authenticate header, under four pairwise different error kinds.
C5_FourDistinctKinds ==
    \A r1, r2 \in ReqIds :
        (VerifiedWithKey(r1) /\ FaultOf(token[r1]) \in FourFaults) =>
            /\ resp[r1][1].status = 401
            /\ resp[r1][1].wwwAuth # <<>>
            /\ (VerifiedWithKey(r2) /\ FaultOf(token[r2]) \in FourFaults
                /\ FaultOf(token[r2]) # FaultOf(token[r1]))
                  => resp[r1][1].body.error # resp[r2][1].body.error

\* The scope the method of the request needs; <<>> for any other method
ScopeNeeded(b) ==
    IF b.method = ToolsList THEN TOOLS_READ
    ELSE IF b.method = ToolsCall THEN TOOLS_EXECUTE
    ELSE <<>>

\* Connection r asked, in a well-formed envelope, for a method whose scope its
\* valid token lacks
LacksScope(r) ==
    /\ route[r] = McpRoute /\ Done(r) /\ Accepted(r) /\ body[r] # <<>>
    /\ body[r][1].type = "object" /\ body[r][1].jsonrpc = V2
    /\ ScopeNeeded(body[r][1]) # <<>>
    /\ ~HoldsScope(ScopeOf(r), ScopeNeeded(body[r][1]))

\* C6: a POST /mcp request with a valid token that lacks the scope of its
\* method gets 403 with a plain JSON body outside the JSON-RPC envelope, never
\* a JSON-RPC error object.
C6_ScopeOutsideEnvelope ==
    \A r \in ReqIds :
        LacksScope(r) => (resp[r][1].status = 403 /\ ~IsJsonRpc(r))

\* The required scopes that are not among the blank-separated scopes of s
ExpectedMissing(s, required) == SelectSeq(required, LAMBDA x : ~HoldsScope(s, x))

\* C7: for every valid token and every list of required scopes the token does
\* not fully hold, the 403 reply names exactly the required scopes absent from
\* the token's blank-separated scope list, in requireScopes and in the scope
\* check of tools/list; a token that holds them all is let through.
C7_NamesMissingScopes ==
    gate.out # <<>> =>
        LET missing == ExpectedMissing(gate.scope, gate.required)
            pre == gate.out[1]
            list == gate.out[2]
        IN  /\ missing # <<>> =>
                 /\ pre.sent /\ pre.resp.status = 403
                 /\ pre.resp.body.error_description =
                        S("Token lacks required scopes: ") \o Join(missing, <<",", " ">>)
            /\ missing = <<>> => ~pre.sent
            /\ ~HoldsScope(gate.scope, TOOLS_READ) =>
                 /\ list.resp.status = 403
                 /\ list.resp.body.error.data = <<S("required_scope"), <<TOOLS_READ>>>>
            /\ HoldsScope(gate.scope, TOOLS_READ) => list.resp.status = 200

\* The gate refused a token that holds one required scope, lacks another and
\* has a scope that contains a required name as a substring.
C7_Witness ==
    /\ gate.out # <<>>
    /\ gate.scope = <<"mcp:tools:read", "x", " ", "mcp:tools:execute">>
    /\ gate.required = <<TOOLS_READ, TOOLS_EXECUTE, KURA_NOTES_SEARCH>>
    /\ gate.out[1].resp.status = 403
    /\ ExpectedMissing(gate.scope, gate.required) = <<TOOLS_READ, KURA_NOTES_SEARCH>>

\* The error_description values the gateway writes itself
GatewayMessages ==
    {S("Missing Authorization header"), S("Authorization header must use Bearer scheme"),
     S("Token is empty"), S("Token has expired"), S("Invalid token signature"),
     S("Invalid token issuer"), S("Invalid token audience"), S("Invalid token payload"),
     S("Token missing required claims (sub, client_id, scope)"),
     S("Token validation failed"), S("Authentication required")}

\* C8: no 401 reply exposes internal exception text: its error_description is
\* one of the messages the gateway writes itself, and two failed verifications
\* of the same token that differ only in the message of the key-fetch
\* exception get identical replies.
C8_NoInternalText ==
    \A r1, r2 \in ReqIds :
        (resp[r1] # <<>> /\ resp[r1][1].status = 401) =>
            /\ resp[r1][1].body.error_description \in GatewayMessages
            /\ (/\ resp[r2] # <<>> /\ resp[r2][1].status = 401
                /\ token[r1] = token[r2]
                /\ keyRes[r1] # <<>> /\ keyRes[r2] # <<>>
                /\ ~keyRes[r1][1].fetched /\ ~keyRes[r2][1].fetched)
                  => resp[r1][1] = resp[r2][1]

\* The notes service answered with a non-success status or could not be reached
UpstreamFailed(up) == up.kind = "throw" \/ up.status \notin 200..299

\* C9: for every tool, when the call had valid arguments and the notes service
\* answers with a non-success status or cannot be reached, the reply is HTTP
\* 200 with a JSON-RPC result, no error member, and a ToolResult with isError
\* true.
C9_UpstreamFailureIsToolError ==
    \A r \in ReqIds :
        (upRes[r] # <<>> /\ UpstreamFailed(upRes[r][1])) =>
            /\ resp[r][1].status = 200
            /\ HasResult(r)
            /\ resp[r][1].body.result.kind = "tool_result"
            /\ resp[r][1].body.result.isError

\* A search answered 401 by the notes service and a delete whose request could
\* not be sent both ended as 200 replies.
C9_Witness ==
    \E r1, r2 \in ReqIds :
        /\ upRes[r1] # <<>> /\ upRes[r1][1].kind = "http" /\ upRes[r1][1].status = 401
        /\ call[r1][1].tool = S("search_kura_notes")
        /\ upRes[r2] # <<>> /\ upRes[r2][1].kind = "throw"
        /\ call[r2][1].tool # S("search_kura_notes")
        /\ resp[r1][1].status = 200 /\ resp[r2][1].status = 200

\* The notes service answered with success, and formatting its reply throws
FormattingFault(r) ==
    /\ upRes[r] # <<>> /\ upRes[r][1].kind = "http" /\ upRes[r][1].status \in 200..299
    /\ upRes[r][1].json = "null"
    /\ call[r][1].tool # S("delete_note")

\* C10: when an executor hits an internal fault that is not a failure of the
\* notes service (an exception while formatting a success reply), the request
\* ends with HTTP 500 and the JSON-RPC internal-error code, not with a 200
\* result whose ToolResult has isError true.
C10_InternalFaultIs500 ==
    \A r \in ReqIds :
        FormattingFault(r) =>
            /\ resp[r][1].status = 500
            /\ HasError(r)
            /\ resp[r][1].body.error.code = INTERNAL_ERROR

\* The messages of the 500 replies, none of them taken from an exception
GenericMessages ==
    {S("Internal server error"), S("Tool execution failed"),
     S("Internal server error: Access token not found")}

IsToolError(r) ==
    /\ HasResult(r)
    /\ resp[r][1].body.result.kind = "tool_result"
    /\ resp[r][1].body.result.isError

ToolText(r) == resp[r][1].body.result.content[1].text

\* C12: the text of a ToolResult with isError true never contains the raw
\* bearer token or the body the notes service returned: two failures of the
\* same request with the same status and different bodies give the same tool
\* result.
C12_NoUpstreamBodyInToolError ==
    \A r1, r2 \in ReqIds :
        (IsToolError(r1) /\ upRes[r1] # <<>>) =>
            /\ ~StrIncludes(ToolText(r1), token[r1])
            /\ (upRes[r1][1].kind = "http" /\ upRes[r1][1].text # <<>>)
                  => ~StrIncludes(ToolText(r1), upRes[r1][1].text)
            /\ (/\ IsToolError(r2) /\ upRes[r2] # <<>>
                /\ call[r1] = call[r2]
                /\ upRes[r1][1].kind = "http" /\ upRes[r2][1].kind = "http"
                /\ upRes[r1][1].status = upRes[r2][1].status)
                  => resp[r1][1].body.result = resp[r2][1].body.result

\* Connection r sent POST /mcp with an accepted token and its body was read
Handled(r) == route[r] = McpRoute /\ Accepted(r) /\ body[r] # <<>>

\* The jsonrpc member of b is not "2.0", or its method is missing, empty or not
\* a string; b is a JSON value other than null
BadEnvelope(b) ==
    /\ b.type \notin {"null", "undefined"}
    /\ \/ b.type # "object"
       \/ b.jsonrpc # V2
       \/ b.method.type # "string"
       \/ b.method.str = <<>>

ErrorCode(r) == resp[r][1].body.error.code

RegisteredNames == {MCP_TOOLS[i].name : i \in DOMAIN MCP_TOOLS}

\* The body of connection r is a well-formed request
GoodEnvelope(r) ==
    /\ Handled(r)
    /\ body[r][1].type = "object" /\ body[r][1].jsonrpc = V2
    /\ body[r][1].method.type = "string" /\ body[r][1].method.str # <<>>

\* Connection r passed the scope check of tools/call with a tool name
NamesTool(r) ==
    /\ GoodEnvelope(r)
    /\ body[r][1].method = ToolsCall
    /\ HoldsScope(ScopeOf(r), TOOLS_EXECUTE)
    /\ body[r][1].params.type = "object"
    /\ body[r][1].params.name.type = "string" /\ body[r][1].params.name.str # <<>>

ToolNamed(r) == body[r][1].params.name.str

UnknownToolReply(r) ==
    /\ HasError(r)
    /\ StartsWith(resp[r][1].body.error.message, S("Unknown tool: "))

\* C15: the available_tools list of the unknown-tool reply holds every
\* registered tool name and nothing else, that is the names tools/list
\* returns, and tools/call answers 'unknown tool' for a name if and only if the
\* name is not among them.
C15_AvailableTools ==
    \A r \in ReqIds :
        /\ (resp[r] # <<>> /\ UnknownToolReply(r)) =>
              LET data == resp[r][1].body.error.data
              IN  /\ data[1] = S("available_tools")
                  /\ {data[2][i] : i \in DOMAIN data[2]} = RegisteredNames
                  /\ Len(data[2]) = Cardinality(RegisteredNames)
        /\ (NamesTool(r) /\ pc[r] \in {"upstream", "done"}) =>
              ((resp[r] # <<>> /\ UnknownToolReply(r)) <=> ToolNamed(r) \notin RegisteredNames)

\* tools/list returned the tools to one connection while another one was told
\* that drop_database is unknown and given the five names.
C15_Witness ==
    \E r1, r2 \in ReqIds :
        /\ HasResult(r1) /\ resp[r1][1].body.result.kind = "tools"
        /\ NamesTool(r2) /\ resp[r2] # <<>> /\ UnknownToolReply(r2)
        /\ Len(resp[r2][1].body.error.data[2]) = 5

\* A limit that is present and not a number from 1 to 50
BadLimit(l) == l.type # "undefined" /\ (l.type # "number" \/ l.num \notin 1..50)

\* A min_similarity that is present and not a number from 0 to 1 (in hundredths)
BadMinSimilarity(m) == m.type # "undefined" /\ (m.type # "number" \/ m.num \notin 0..100)

\* Connection r called search_kura_notes with an arguments object
SearchCall(r) ==
    /\ NamesTool(r) /\ ToolNamed(r) = S("search_kura_notes")
    /\ body[r][1].params.arguments.type = "object"

\* C16: a search_kura_notes call whose limit is 0, 51 or not a number, or whose
\* min_similarity is below 0, above 1 or not a number, is rejected with the
\* invalid-params code, and no request is sent to the notes service for it.
C16_BoundsBeforeUpstream ==
    \A r \in ReqIds :
        (/\ SearchCall(r)
         /\ \/ BadLimit(body[r][1].params.arguments.limit)
            \/ BadMinSimilarity(body[r][1].params.arguments.min_similarity)) =>
            /\ call[r] = <<>> /\ upRes[r] = <<>>
            /\ trace[r] = <<"auth", "envelope", "scope">>
            /\ HasError(r)
            /\ resp[r][1].status = 400
            /\ ErrorCode(r) = INVALID_PARAMS

\* A search with limit 0 and one with min_similarity 1.01 were both refused,
\* while limit 50 is accepted.
C16_Witness ==
    \E r1, r2 \in ReqIds :
        /\ SearchCall(r1) /\ body[r1][1].params.arguments.limit = JNum(0)
        /\ SearchCall(r2) /\ body[r2][1].params.arguments.min_similarity = JNum(101)
        /\ resp[r1][1].status = 400 /\ resp[r2][1].status = 400

\* The arguments a violate the inputSchema of the tool: the type of the
\* arguments, the required members, the type and minLength of the strings and
\* the bounds of the numbers
SchemaViolation(tool, a) ==
    IF tool = S("list_recent_notes") THEN a.type \notin {"object", "undefined"}
    ELSE \/ a.type # "object"
         \/ /\ tool = S("search_kura_notes")
            /\ \/ a.query.type # "string" \/ a.query.str = <<>>
               \/ BadLimit(a.limit)
               \/ BadMinSimilarity(a.min_similarity)
         \/ /\ tool = S("create_note")
            /\ \/ a.content.type # "string" \/ a.content.str = <<>>
               \/ a.title.type \notin {"undefined", "string"}
         \/ /\ tool \in {S("get_note"), S("delete_note")}
            /\ (a.note_id.type # "string" \/ a.note_id.str = <<>>)

\* C17: every tools/call whose arguments violate the inputSchema of the called
\* tool in type, bounds or required members is rejected before any request to
\* the notes service is made.
C17_SchemaBeforeUpstream ==
    \A r \in ReqIds :
        (NamesTool(r) /\ ToolNamed(r) \in RegisteredNames
         /\ SchemaViolation(ToolNamed(r), body[r][1].params.arguments)) =>
            (call[r] = <<>> /\ upRes[r] = <<>>)

\* The reply of connection r is a tool list
IsToolList(r) == HasResult(r) /\ resp[r][1].body.result.kind = "tools"

ErrorKind(r) == resp[r][1].body.error

\* Connection r sent no Authorization header to a protected route
MissingToken(r) == resp[r] # <<>> /\ trace[r] # <<>> /\ ~header[r].present

\* Connection r sent an Authorization header that is not of the Bearer scheme
\* or has an empty token
MalformedToken(r) ==
    /\ resp[r] # <<>> /\ trace[r] # <<>> /\ header[r].present /\ header[r].value # <<>>
    /\ (~StartsWith(header[r].value, BearerPrefix) \/ header[r].value = BearerPrefix)

\* The token of connection r was handed to verifyToken and refused
FailedVerification(r) == resp[r] # <<>> /\ keyRes[r] # <<>> /\ user[r] = <<>>

\* C19: a request with no Authorization header and a request whose header is
\* not of the Bearer scheme or carries an empty token are both refused with
\* 401, under two different error kinds, and the kind for the malformed header
\* differs from every kind reported for a token that failed verification.
C19_MissingAndMalformedKinds ==
    \A r1, r2 \in ReqIds :
        /\ (MissingToken(r1) \/ MalformedToken(r1)) => resp[r1][1].status = 401
        /\ (MissingToken(r1) /\ MalformedToken(r2)) => ErrorKind(r1) # ErrorKind(r2)
        /\ (MalformedToken(r1) /\ FailedVerification(r2)) => ErrorKind(r1) # ErrorKind(r2)

\* A correctly signed, unexpired token of the right issuer and audience that
\* lacks sub, client_id or scope
LacksClaim(tok) ==
    LET j == Decode(tok)
    IN  /\ tok \in TokenStrings
        /\ [j EXCEPT !.sub = GoodJwt.sub, !.client_id = GoodJwt.client_id,
                     !.scope = GoodJwt.scope] = GoodJwt
        /\ (j.sub = <<>> \/ j.client_id = <<>> \/ j.scope = <<>>)

\* Connection r was refused for a missing claim
MalformedClaims(r) == VerifiedWithKey(r) /\ LacksClaim(token[r])

\* Connection r was refused because the key set could not be fetched
KeyFetchFailed(r) ==
    /\ resp[r] # <<>> /\ keyRes[r] # <<>> /\ ~keyRes[r][1].fetched
    /\ token[r] \in TokenStrings /\ Decode(token[r]).wellFormed

\* C20: a correctly signed, unexpired token without sub, client_id or scope,
\* and a token whose signing key cannot be fetched, are each refused with an
\* error kind of their own, different from each other and from the kinds for
\* an invalid signature, expiry, issuer mismatch and audience mismatch.
C20_ClaimsAndKeyFetchKinds ==
    \A r1, r2 \in ReqIds :
        /\ (MalformedClaims(r1) \/ KeyFetchFailed(r1)) => resp[r1][1].status = 401
        /\ (MalformedClaims(r1) /\ KeyFetchFailed(r2)) => ErrorKind(r1) # ErrorKind(r2)
        /\ ((MalformedClaims(r1) \/ KeyFetchFailed(r1))
            /\ VerifiedWithKey(r2) /\ FaultOf(token[r2]) \in FourFaults)
              => ErrorKind(r1) # ErrorKind(r2)

\* C21: a tools/call for search_kura_notes is executed only if the token holds
\* the tool's own scope kura:notes:search besides mcp:tools:execute; without
\* it the call is refused with 403 and no request goes to the notes service.
C21_SearchNeedsToolScope ==
    \A r \in ReqIds :
        /\ (call[r] # <<>> /\ call[r][1].tool = S("search_kura_notes"))
              => /\ HoldsScope(ScopeOf(r), TOOLS_EXECUTE)
                 /\ HoldsScope(ScopeOf(r), KURA_NOTES_SEARCH)
        /\ (SearchCall(r) /\ ~HoldsScope(ScopeOf(r), KURA_NOTES_SEARCH))
              => (call[r] = <<>> /\ resp[r] # <<>> /\ resp[r][1].status = 403)

\* The resource_metadata parameter the challenge must carry
ResourceMetadata ==
    S("resource_metadata=\"") \o BASE_URL \o S("/.well-known/oauth-protected-resource")
    \o S("\"")

C23_ResultXorError ==
    \A r \in ReqIds :
        (resp[r] # <<>> /\ IsJsonRpc(r)) =>
            /\ resp[r][1].body.jsonrpc = S("2.0")
            /\ Cardinality(resp[r][1].body.members \cap {"result", "error"}) = 1

\* A failed tool call ended as a result while a request with a null body ended
\* as an internal error.
C23_Witness ==
    \E r1, r2 \in ReqIds :
        /\ IsToolError(r1) /\ resp[r1][1].body.members = {"result"}
        /\ resp[r2] # <<>> /\ resp[r2][1].status = 500 /\ resp[r2][1].body.members = {"error"}

\* C26: verifyToken accepts a token only if it carries an exp claim and the
\* current time is less than exp plus 30 seconds; a token without exp, or one
\* more than 30 seconds past its exp, is never accepted.
C26_ExpRequired ==
    \A r \in ReqIds :
        (keyRes[r] # <<>> /\ verifyToken(token[r], keyRes[r][1]).ok) =>
            /\ Decode(token[r]).hasExp
            /\ Now < Decode(token[r]).exp + clockTolerance

\* C28: every authenticated POST /mcp request whose body is not a JSON-RPC
\* request object, a body that is JSON null, a string, a number or an array
\* included, gets HTTP 400 with the invalid-request code.
C28_NonObjectBodyIs400 ==
    \A r \in ReqIds :
        (Handled(r) /\ body[r][1].type # "object") =>
            /\ resp[r] # <<>>
            /\ resp[r][1].status = 400
            /\ HasError(r)
            /\ ErrorCode(r) = INVALID_REQUEST

\* The id member of the request body of connection r
RequestId(r) == Prop(body[r][1], "id")

\* C29: every JSON-RPC response to a request whose body carries an id, a
\* string or a number, 0 and the empty string included, carries that id, and
\* the response id is null only when the request had no id or a null id; for
\* success, error and internal-error responses alike.
C29_IdEchoed ==
    \A r \in ReqIds :
        (Handled(r) /\ resp[r] # <<>> /\ IsJsonRpc(r)) =>
            /\ RequestId(r).type \in {"string", "number"}
                  => resp[r][1].body.id = RequestId(r)
            /\ resp[r][1].body.id = JNull => RequestId(r).type \in {"undefined", "null"}

\* A tool list was returned under the id 0 and an error under the id "".
C29_Witness ==
    \E r1, r2 \in ReqIds :
        /\ Handled(r1) /\ IsToolList(r1) /\ RequestId(r1) = JNum(0)
        /\ resp[r1][1].body.id = JNum(0)
        /\ Handled(r2) /\ resp[r2] # <<>> /\ HasError(r2) /\ RequestId(r2) = JStr(<<>>)
        /\ resp[r2][1].body.id = JStr(<<>>)

\* C30: the search request sent to the notes service for a search_kura_notes
\* call carries the caller's effective parameters: the given limit, or 10 when
\* it is omitted, and the given min_similarity, or 0.7 when it is omitted.
C30_EffectiveSearchParameters ==
    \A r \in ReqIds :
        (call[r] # <<>> /\ call[r][1].tool = S("search_kura_notes")) =>
            LET a == body[r][1].params.arguments
                limit == IF a.limit.type = "undefined" THEN DefaultLimit ELSE a.limit.num
                minSimilarity == IF a.min_similarity.type = "undefined"
                                 THEN DefaultMinSimilarity
                                 ELSE a.min_similarity.num
            IN  /\ call[r][1].limit = JStr(S(ToString(limit)))
                /\ call[r][1].min_similarity.type # "undefined"
                /\ call[r][1].min_similarity.num = minSimilarity

\* C27: whenever verifyTokenWithScopes rejects a token for insufficient
\* scope, the scopes it reports as missing are exactly the required scopes
\* that are absent from the token's space-separated scope list: the reported
\* list is never empty and omits no missing scope.
C27_ReportsAbsentScopes ==
    gate.out # <<>> =>
        LET missing == ExpectedMissing(gate.scope, gate.required)
            v == gate.out[3]
        IN  (~v.ok /\ v.code = S("insufficient_scope")) =>
                /\ missing # <<>>
                /\ v.message = S("Token lacks required scopes: ")
                                \o Join(missing, <<",", " ">>)

\* C25: a cached signing key is reused for later verifications until it is
\* one hour old, except that a signature-verification failure with a cached
\* key invalidates it: the next verification for that key id fetches the key
\* set again.
C25_CachedKeyLifetime ==
    \A i \in DOMAIN jwks.log :
        LET cur == jwks.log[i]
            fresh == cur.keyAt >= 0 /\ cur.at - cur.keyAt < cacheMaxAge
            invalidated == /\ i > 1
                           /\ ~jwks.log[i - 1].fetched
                           /\ jwks.log[i - 1].code = S("invalid_signature")
        IN  /\ ~cur.fetched => fresh
            /\ (fresh /\ ~invalidated) => ~cur.fetched
            /\ invalidated => cur.fetched

====
